---- MODULE Spec2Model ----
(***************************************************************************)
(* Model of src/app.py: the module-level load and preprocessing of         *)
(* transactions.csv (lines 20-27), the two filter dropdowns (lines 73-84)  *)
(* and the callback update_graphs (lines 223-292).                         *)
(*                                                                         *)
(* Text cells are sequences of character codes ("A" is <<65>>), so that    *)
(* str.title() and the ordering of group keys are computed, not assumed.   *)
(* Numeric cells are integers; Discount_pct is held in tenths of a percent *)
(* (51 is 5.1) so that values between two whole percents exist.  A mean is *)
(* an exact fraction in lowest terms.  A data frame is a record of its     *)
(* column names, its rows in order and the categories of its categorical   *)
(* columns.  Frames live in a heap of objects addressed by references, so  *)
(* that copying, selecting and assigning a column are distinguishable.     *)
(***************************************************************************)
EXTENDS Integers, Sequences, FiniteSets, TLC

VARIABLES
  phase,        \* "start", then "serving" or "failed"
  csv,          \* the rows of transactions.csv
  df,           \* the module-level frame
  df_at_load,   \* df as the preprocessing left it (history)
  args,         \* the arguments of the last call of update_graphs
  filtered_df,  \* its local frame when it returned
  ret,          \* the nine values it returned
  again         \* whether a call came before the last one (history)

vars == <<phase, csv, df, df_at_load, args, filtered_df, ret, again>>

\* ------------------------------------------------------------------ bounds

\* Longest short input file, in rows, and the last row one may start after.
MaxRows == 3

MaxStart == 9

\* Length of the generated long input file (longer than the row preview).
LongRows == 112

\* ------------------------------------------------------------- cell values

\* A missing text cell (NaN); -1 is no character code.
NaN == <<-1>>

\* A missing float (the mean of no rows): 0/0.
NaNFloat == [num |-> 0, den |-> 0]

\* The argument None of the callback, and a list argument.
None == [isNone |-> TRUE, values |-> {}]

List(S) == [isNone |-> FALSE, values |-> S]

Abs(n) == IF n < 0 THEN -n ELSE n

Min2(a, b) == IF a <= b THEN a ELSE b

RECURSIVE GCD(_, _)
GCD(a, b) == IF b = 0 THEN a ELSE GCD(b, a % b)

\* sum / count as a float, exact: a fraction in lowest terms, NaN for count 0.
Frac(sum, count) ==
  IF count = 0 THEN NaNFloat
  ELSE LET g == GCD(Abs(sum), count)
       IN  [num |-> sum \div g, den |-> count \div g]

\* Python's order of two strings: by code point, a proper prefix first.
StrLess(a, b) ==
  \E i \in 1..(Min2(Len(a), Len(b)) + 1) :
     /\ \A j \in 1..(i - 1) : a[j] = b[j]
     /\ \/ i > Len(a) /\ i <= Len(b)
        \/ i <= Len(a) /\ i <= Len(b) /\ a[i] < b[i]

\* sorted(S) for a finite set of strings.
RECURSIVE SortedStrings(_)
SortedStrings(S) ==
  IF S = {} THEN <<>>
  ELSE LET m == CHOOSE x \in S : \A y \in S \ {x} : StrLess(x, y)
       IN  <<m>> \o SortedStrings(S \ {m})

Range(s) == {s[i] : i \in 1..Len(s)}

\* ------------------------------------------------------------ str.title()

IsLower(c) == c \in 97..122

IsUpper(c) == c \in 65..90

IsCased(c) == IsLower(c) \/ IsUpper(c)

ToUpper(c) == IF IsLower(c) THEN c - 32 ELSE c

ToLower(c) == IF IsUpper(c) THEN c + 32 ELSE c

\* str.title(): a cased character is upper case after an uncased one (or at the
\* start) and lower case after a cased one.
Title(s) ==
  [i \in 1..Len(s) |->
     IF i > 1 /\ IsCased(s[i - 1]) THEN ToLower(s[i]) ELSE ToUpper(s[i])]

\* str(x) of a cell: "nan" for a missing one.
Str(x) == IF x = NaN THEN <<110, 97, 110>> ELSE x

\* ------------------------------------------------------------------ dates

IsLeap(y) == (y % 4 = 0 /\ y % 100 # 0) \/ y % 400 = 0

DaysInMonth(y, m) ==
  IF m = 2 THEN (IF IsLeap(y) THEN 29 ELSE 28)
  ELSE IF m \in {4, 6, 9, 11} THEN 30 ELSE 31

\* Whether pd.to_datetime parses the text of year-month-day d.
Parsable(d) == d[2] \in 1..12 /\ d[3] \in 1..DaysInMonth(d[1], d[2])

\* pd.to_datetime of a parsable text: the timestamp, as its calendar fields.
ToDatetime(d) == [year |-> d[1], month |-> d[2], day |-> d[3]]

\* The month a timestamp lies in, counted from year 0.
MonthNo(t) == t.year * 12 + (t.month - 1)

\* The label of a month bin of freq='M': the last day of the month.
MonthEnd(n) ==
  LET y == n \div 12
      m == (n % 12) + 1
  IN  [year |-> y, month |-> m, day |-> DaysInMonth(y, m)]

\* ------------------------------------------------------- transactions.csv

\* The columns of the file that the preprocessing and the callback read.
CsvColumns ==
  <<"Gender", "Location", "Tenure_Months", "Transaction_Date",
    "Product_Description", "Product_Category", "Quantity", "Avg_Price",
    "Coupon_Status", "Date", "Offline_Spend", "Online_Spend", "Discount_pct">>

\* One line of the file: gender, location, tenure, date (of both date columns),
\* product, category, quantity, price, coupon status, offline and online spend,
\* discount.
RawRow(g, loc, ten, date, prod, cat, qty, price, coup, off, on, disc) ==
  [Gender |-> g, Location |-> loc, Tenure_Months |-> ten,
   Transaction_Date |-> date, Product_Description |-> prod,
   Product_Category |-> cat, Quantity |-> qty, Avg_Price |-> price,
   Coupon_Status |-> coup, Date |-> date, Offline_Spend |-> off,
   Online_Spend |-> on, Discount_pct |-> disc]

TextM == <<77>>
TextF == <<70>>
TextA == <<65>>
TextB == <<66>>
TextUsed == <<85, 115, 101, 100>>
TextClicked == <<67, 108, 105, 99, 107, 101, 100>>
TextPa == <<112, 97>>
TextPb == <<112, 98>>
\* "la", "LA", "ny" and "n y": two spellings of one location, and two others.
TextLocations == << <<108, 97>>, <<76, 65>>, <<110, 121>>, <<110, 32, 121>> >>

\* TextLocations in the order the rows of the file use them.
RowLocations == <<1, 2, 3, 1, 4>>

RowDates ==
  << <<2019, 11, 30>>, <<2019, 12, 31>>, <<2020, 2, 1>>, <<2020, 2, 29>>,
     <<2020, 4, 10>> >>

\* Tenures and discounts (in tenths) on every bin edge and beside it.
RowTenures == <<-1, 0, 1, 6, 7, 12, 13, 24, 25, 36, 37>>

RowDiscounts == <<-10, 0, 1, 50, 51, 100, 101, 150, 151, 200, 201, 1000, 1001>>

\* Row i of a well-formed file: every column runs through its values with a
\* period of its own.
CleanRow(i) ==
  RawRow(IF i % 2 = 0 THEN TextM ELSE TextF,
         TextLocations[RowLocations[(i % 5) + 1]],
         RowTenures[(i % 11) + 1],
         RowDates[((i \div 2) % 5) + 1],
         IF i % 3 = 0 THEN TextPb ELSE TextPa,
         IF i % 12 = 2 THEN TextB ELSE TextA,
         1 + (i % 3), 1 + (i % 4),
         IF i % 2 = 0 THEN TextUsed ELSE TextClicked,
         i % 5, i % 7,
         RowDiscounts[(i % 13) + 1])

\* Row i of a file as it may come: more rows of the second category, and now
\* and then an empty category and location field, a negative amount, or a date
\* that is no date.
DirtyRow(i) ==
  LET r == CleanRow(i)
  IN  IF i % 9 = 8
      THEN [r EXCEPT !.Transaction_Date = <<2020, 13, 1>>, !.Date = <<2021, 2, 29>>]
      ELSE IF i % 7 = 1 THEN [r EXCEPT !.Product_Category = TextB]
      ELSE IF i % 7 = 3 THEN [r EXCEPT !.Product_Category = <<>>, !.Location = <<>>]
      ELSE IF i % 7 = 5 THEN [r EXCEPT !.Quantity = -1, !.Offline_Spend = -10]
      ELSE r

\* The short input files: the runs of one to MaxRows rows that start within the
\* first MaxStart + 1 rows of the dirty file.
ShortFiles ==
  {[i \in 1..n |-> DirtyRow(s + i)] : s \in 0..MaxStart, n \in 1..MaxRows}

\* One well-formed file longer than the row preview.
LongFile == [i \in 1..LongRows |-> CleanRow(i)]

\* ----------------------------------------------- load and preprocessing

\* pd.read_csv: an empty text field is a missing value.
ReadCell(x) == IF x = <<>> THEN NaN ELSE x

read_csv(file) ==
  [i \in 1..Len(file) |->
     [file[i] EXCEPT !.Gender = ReadCell(@), !.Location = ReadCell(@),
                     !.Product_Description = ReadCell(@),
                     !.Product_Category = ReadCell(@),
                     !.Coupon_Status = ReadCell(@)]]

\* pd.to_datetime raises on a text that is no date.
DatesParse(rows) ==
  {i \in 1..Len(rows) :
     ~(Parsable(rows[i].Transaction_Date) /\ Parsable(rows[i].Date))} = {}

\* Lines 23-27, row by row.
PreprocessRow(r) ==
  [Gender |-> r.Gender,
   Location |-> Title(Str(r.Location)),
   Tenure_Months |-> r.Tenure_Months,
   Transaction_Date |-> ToDatetime(r.Transaction_Date),
   Product_Description |-> r.Product_Description,
   Product_Category |-> r.Product_Category,
   Quantity |-> r.Quantity,
   Avg_Price |-> r.Avg_Price,
   Coupon_Status |-> r.Coupon_Status,
   Date |-> ToDatetime(r.Date),
   Offline_Spend |-> r.Offline_Spend,
   Online_Spend |-> r.Online_Spend,
   Discount_pct |-> r.Discount_pct,
   Total_Spend |-> r.Offline_Spend + r.Online_Spend,
   Revenue |-> r.Quantity * r.Avg_Price]

\* The frame df after line 27.  astype('category') fixes the categories of
\* Location: the values present, sorted.
Preprocess(rows) ==
  LET out == [i \in 1..Len(rows) |-> PreprocessRow(rows[i])]
  IN  [columns |-> CsvColumns \o <<"Total_Spend", "Revenue">>,
       rows |-> out,
       cats |-> [Location |-> SortedStrings({out[i].Location : i \in 1..Len(out)})]]

\* The options of the two dropdowns: sorted(df[col].dropna().unique()).
DropdownOptions(frame, col) ==
  SortedStrings({frame.rows[i][col] : i \in 1..Len(frame.rows)} \ {NaN})

\* ------------------------------------------------------ frames in a heap

\* The module-level name df refers to the first object of the heap.
DfRef == 1

\* Copy without the copy: filtered_df = df, two names of one object.
CopyAlias(h, r) == [heap |-> h, ref |-> r]

\* frame.copy(): a new object with the same content.
Copy(h, r) == [heap |-> Append(h, h[r]), ref |-> Len(h) + 1]

\* frame[col].isin(values): one boolean per row.  A missing cell is in no list.
IsIn(frame, col, values) ==
  [i \in 1..Len(frame.rows) |-> frame.rows[i][col] \in values]

\* The rows lo..hi that the mask keeps, in order.
RECURSIVE Keep(_, _, _, _)
Keep(rows, mask, lo, hi) ==
  IF lo > hi THEN <<>>
  ELSE IF lo = hi THEN (IF mask[lo] THEN <<rows[lo]>> ELSE <<>>)
  ELSE LET mid == (lo + hi) \div 2
       IN  Keep(rows, mask, lo, mid) \o Keep(rows, mask, mid + 1, hi)

\* frame[mask]: a new object holding the rows the mask keeps, in order, with
\* the columns and the categories of the frame.
Select(h, r, mask) ==
  [heap |-> Append(h, [h[r] EXCEPT !.rows = Keep(h[r].rows, mask, 1, Len(h[r].rows))]),
   ref |-> Len(h) + 1]

\* The record f with field c set to v, a new field if f has none.
With(f, c, v) == [x \in (DOMAIN f) \cup {c} |-> IF x = c THEN v ELSE f[x]]

\* The record of two fields.
Pair(c1, v1, c2, v2) == [x \in {c1, c2} |-> IF x = c1 THEN v1 ELSE v2]

\* frame[col] = values, values categorical with categories cats: the object
\* itself gets the column (a new last column, or new cells for an old one).
SetCategorical(h, r, col, values, cats) ==
  [h EXCEPT ![r] =
     [columns |-> IF col \in Range(@.columns) THEN @.columns
                  ELSE Append(@.columns, col),
      rows |-> [i \in 1..Len(@.rows) |-> With(@.rows[i], col, values[i])],
      cats |-> With(@.cats, col, cats)]]

\* ------------------------------------------------------------------ pd.cut

\* float('inf'), the last edge of tenure_bins: above every value of the model.
Inf == 1000000

\* Discount_pct is held in tenths of a percent.
Tenths == 10

tenure_bins == <<0, 6, 12, 24, 36, Inf>>

\* '0-6', '7-12', '13-24', '25-36', '36+'
tenure_labels ==
  << <<48, 45, 54>>, <<55, 45, 49, 50>>, <<49, 51, 45, 50, 52>>,
     <<50, 53, 45, 51, 54>>, <<51, 54, 43>> >>

discount_bins == <<0, 5, 10, 15, 20, 100>>

\* '0-5%', '5-10%', '10-15%', '15-20%', '20%+'
discount_labels ==
  << <<48, 45, 53, 37>>, <<53, 45, 49, 48, 37>>, <<49, 48, 45, 49, 53, 37>>,
     <<49, 53, 45, 50, 48, 37>>, <<50, 48, 37, 43>> >>

\* SearchSorted with side='right' (pd.cut with right=False): bins closed on
\* the left.
SearchSortedRight(bins, unit, x) ==
  Cardinality({i \in 1..Len(bins) : bins[i] * unit <= x})

\* bins.searchsorted(x, side='left'), x held in 1/unit: how many edges lie
\* below x.
SearchSorted(bins, unit, x) ==
  Cardinality({i \in 1..Len(bins) : bins[i] * unit < x})

\* pd.cut(x, bins, labels) with right=True: the label of the bin x lies in,
\* each bin open on the left and closed on the right; missing for an x at or
\* below the first edge (include_lowest=False) or above the last.
Cut(x, unit, bins, labels) ==
  LET ids == SearchSorted(bins, unit, x)
  IN  IF ids = 0 \/ ids = Len(bins) THEN NaN ELSE labels[ids]

\* ----------------------------------------------------------------- groupby

\* GroupKeys with observed=True: only the keys that have a row.
GroupKeysObserved(frame, key) ==
  SortedStrings({frame.rows[i][key] : i \in 1..Len(frame.rows)} \ {NaN})

\* The group keys of groupby(key), in the order of the result: every category
\* of a categorical key, observed or not (observed=False), in category order;
\* else the values present, sorted, a missing key dropped.
GroupKeys(frame, key) ==
  IF key \in DOMAIN frame.cats THEN frame.cats[key]
  ELSE SortedStrings({frame.rows[i][key] : i \in 1..Len(frame.rows)} \ {NaN})

\* The sum of the numbers s[lo..hi].
RECURSIVE SumSeq(_, _, _)
SumSeq(s, lo, hi) ==
  IF lo > hi THEN 0
  ELSE IF lo = hi THEN s[lo]
  ELSE LET mid == (lo + hi) \div 2
       IN  SumSeq(s, lo, mid) + SumSeq(s, mid + 1, hi)

\* The sum of column val over the rows whose key is k.
GroupSum(rows, key, k, val) ==
  SumSeq([i \in 1..Len(rows) |-> IF rows[i][key] = k THEN rows[i][val] ELSE 0],
         1, Len(rows))

GroupSize(rows, key, k) ==
  SumSeq([i \in 1..Len(rows) |-> IF rows[i][key] = k THEN 1 ELSE 0], 1, Len(rows))

\* groupby(key)[val].sum().reset_index()
SumBy(frame, key, val) ==
  LET keys == GroupKeys(frame, key)
  IN  [j \in 1..Len(keys) |->
         Pair(key, keys[j], val, GroupSum(frame.rows, key, keys[j], val))]

\* groupby(key)[val].mean().reset_index(): missing for a group of no rows.
MeanBy(frame, key, val) ==
  LET keys == GroupKeys(frame, key)
  IN  [j \in 1..Len(keys) |->
         Pair(key, keys[j], val,
              Frac(GroupSum(frame.rows, key, keys[j], val),
                   GroupSize(frame.rows, key, keys[j])))]

\* Where row x goes in t, sorted descending by col: behind every row that is
\* not smaller.
RECURSIVE InsertDesc(_, _, _)
InsertDesc(t, x, col) ==
  IF t = <<>> THEN <<x>>
  ELSE IF Head(t)[col] >= x[col] THEN <<Head(t)>> \o InsertDesc(Tail(t), x, col)
       ELSE <<x>> \o t

\* sort_values(col, ascending=False): descending, equal rows in their order (the
\* sort of the few rows of a result is an insertion sort on the reversed rows,
\* reversed back).
RECURSIVE SortDesc(_, _)
SortDesc(t, col) ==
  IF t = <<>> THEN <<>>
  ELSE InsertDesc(SortDesc(SubSeq(t, 1, Len(t) - 1), col), t[Len(t)], col)

\* head one row too long.
HeadRowsInclusive(t, n) == SubSeq(t, 1, Min2(n + 1, Len(t)))

\* head(n)
HeadRows(t, n) == SubSeq(t, 1, Min2(n, Len(t)))

\* MonthlySum as a plain groupby of the month: only the months that have a row.
MonthlySumObserved(frame, val) ==
  LET months == {MonthNo(frame.rows[i].Transaction_Date) : i \in 1..Len(frame.rows)}
      nth(j) == CHOOSE m \in months : Cardinality({o \in months : o <= m}) = j
  IN  [j \in 1..Cardinality(months) |->
         [Transaction_Date |-> MonthEnd(nth(j)),
          Revenue |->
            SumSeq([i \in 1..Len(frame.rows) |->
                      IF MonthNo(frame.rows[i].Transaction_Date) = nth(j)
                      THEN frame.rows[i][val] ELSE 0],
                   1, Len(frame.rows))]]

\* groupby(pd.Grouper(key='Transaction_Date', freq='M'))[val].sum(): one bin for
\* every month from the first to the last month that has a row, the sum of a
\* month with no row being 0; no bin for no rows.
MonthlySum(frame, val) ==
  IF frame.rows = <<>> THEN <<>>
  ELSE LET months == {MonthNo(frame.rows[i].Transaction_Date) :
                        i \in 1..Len(frame.rows)}
           first == CHOOSE m \in months : \A o \in months : m <= o
           last == CHOOSE m \in months : \A o \in months : o <= m
           sum(m) ==
             SumSeq([i \in 1..Len(frame.rows) |->
                       IF MonthNo(frame.rows[i].Transaction_Date) = m
                       THEN frame.rows[i][val] ELSE 0],
                    1, Len(frame.rows))
       IN  [j \in 1..(last - first + 1) |->
              [Transaction_Date |-> MonthEnd(first + j - 1),
               Revenue |-> sum(first + j - 1)]]

\* ----------------------------------------------------------- update_graphs

\* head(10) of the top products, head(100) of the row preview.
TopProducts == 10

PreviewRows == 100

\* Truthy as "is not None": the empty list counts as a filter.
TruthyIsNotNone(a) == ~a.isNone

\* Python's truth of an argument: None and the empty list are false.
Truthy(a) == ~a.isNone /\ a.values # {}

\* filtered_df['Product_Category'].isin(categories)
CategoryMask(frame, categories) == IsIn(frame, "Product_Category", categories.values)

\* LocationMask on the column of the other filter.
LocationMaskWrongColumn(frame, locations) ==
  IsIn(frame, "Product_Category", locations.values)

\* filtered_df['Location'].isin(locations)
LocationMask(frame, locations) == IsIn(frame, "Location", locations.values)

\* filter_data narrowing df itself before it copies it.
filter_data_in_place(h, categories, locations) ==
  LET h1 == IF Truthy(categories)
            THEN [h EXCEPT ![DfRef].rows =
                    Keep(@, CategoryMask(h[DfRef], categories), 1, Len(@))]
            ELSE h
      h2 == IF Truthy(locations)
            THEN [h1 EXCEPT ![DfRef].rows =
                    Keep(@, LocationMask(h1[DfRef], locations), 1, Len(@))]
            ELSE h1
  IN  Copy(h2, DfRef)

\* Lines 225-231: filtered_df, a copy of df narrowed by each argument that is
\* true.  The heap after, and the object filtered_df refers to.
filter_data(h, categories, locations) ==
  LET s0 == Copy(h, DfRef)
      s1 == IF Truthy(categories)
            THEN Select(s0.heap, s0.ref, CategoryMask(s0.heap[s0.ref], categories))
            ELSE s0
  IN  IF Truthy(locations)
      THEN Select(s1.heap, s1.ref, LocationMask(s1.heap[s1.ref], locations))
      ELSE s1

\* groupby('Gender')[['Online_Spend', 'Offline_Spend']].sum().reset_index()
GenderSums(frame) ==
  LET keys == GroupKeys(frame, "Gender")
  IN  [j \in 1..Len(keys) |->
         [Gender |-> keys[j],
          Online_Spend |-> GroupSum(frame.rows, "Gender", keys[j], "Online_Spend"),
          Offline_Spend |-> GroupSum(frame.rows, "Gender", keys[j], "Offline_Spend")]]

\* The callback, lines 223-292: the heap it leaves, the object its local
\* filtered_df refers to when it returns, and the nine values it returns (of a
\* figure, the table it plots).
update_graphs(h, categories, locations) ==
  LET s == filter_data(h, categories, locations)
      r == s.ref
      f0 == s.heap[r]
      h1 == SetCategorical(s.heap, r, "Tenure_Group",
              [i \in 1..Len(f0.rows) |->
                 Cut(f0.rows[i].Tenure_Months, 1, tenure_bins, tenure_labels)],
              tenure_labels)
      f1 == h1[r]
      h2 == SetCategorical(h1, r, "Discount_Group",
              [i \in 1..Len(f1.rows) |->
                 Cut(f1.rows[i].Discount_pct, Tenths, discount_bins, discount_labels)],
              discount_labels)
      f2 == h2[r]
  IN  [heap |-> h2,
       ref |-> r,
       out |->
         [monthly_sales |-> MonthlySum(f0, "Revenue"),
          category_revenue |->
            SortDesc(SumBy(f0, "Product_Category", "Revenue"), "Revenue"),
          top_products |->
            HeadRows(SortDesc(SumBy(f0, "Product_Description", "Quantity"),
                              "Quantity"), TopProducts),
          gender_spending |-> GenderSums(f0),
          tenure_spending |-> MeanBy(f1, "Tenure_Group", "Total_Spend"),
          location_spending |->
            SortDesc(SumBy(f1, "Location", "Total_Spend"), "Total_Spend"),
          coupon_effect |-> MeanBy(f1, "Coupon_Status", "Revenue"),
          discount_impact |-> MeanBy(f2, "Discount_Group", "Revenue"),
          table_data |-> HeadRows(f2.rows, PreviewRows)]]

\* ------------------------------------------------------------ the program

\* A value no known category or location has ("Zz").
Unknown == <<90, 122>>

\* What a client may send for a dropdown: nothing yet (None), an emptied
\* selection, the first option, all options, or a value that is no option.
Selections(options) ==
  {None, List({}), List(Range(options)), List({Unknown})}
    \cup {List({options[i]}) : i \in 1..Min2(1, Len(options))}

InitWith(files) ==
  /\ phase = "start"
  /\ csv \in files
  /\ df = <<>>
  /\ df_at_load = <<>>
  /\ args = <<>>
  /\ filtered_df = <<>>
  /\ ret = <<>>
  /\ again = FALSE

Init == InitWith(ShortFiles)

InitLong == InitWith(ShortFiles \cup {LongFile})

\* Lines 20-27 succeed: the process serves.
Load ==
  /\ phase = "start"
  /\ DatesParse(read_csv(csv))
  /\ phase' = "serving"
  /\ df' = Preprocess(read_csv(csv))
  /\ df_at_load' = df'
  /\ UNCHANGED <<csv, args, filtered_df, ret, again>>

\* pd.to_datetime raises at line 23 or 25: the process ends before it serves.
LoadError ==
  /\ phase = "start"
  /\ ~DatesParse(read_csv(csv))
  /\ phase' = "failed"
  /\ UNCHANGED <<csv, df, df_at_load, args, filtered_df, ret, again>>

\* One call of the callback.
UpdateGraphs ==
  /\ phase = "serving"
  /\ \E categories \in Selections(DropdownOptions(df_at_load, "Product_Category")),
        locations \in Selections(DropdownOptions(df_at_load, "Location")) :
       LET r == update_graphs(<<df>>, categories, locations)
       IN  /\ df' = r.heap[DfRef]
           /\ filtered_df' = r.heap[r.ref]
           /\ ret' = r.out
           /\ args' = [categories |-> categories, locations |-> locations]
  /\ again' = (args # <<>>)
  /\ UNCHANGED <<phase, csv, df_at_load>>

Next == Load \/ LoadError \/ UpdateGraphs

Spec == Init /\ [][Next]_vars

\* The same program started on any short file or on the long one.
SpecLong == InitLong /\ [][Next]_vars

Called == phase = "serving" /\ args # <<>>

\* ------------------------------------------------- notions of the claims

\* The rows of the last call's filtered view.
View == filtered_df.rows

\* Whether an argument restricts nothing (None or empty), and whether a row
\* passes the last call's filter.
Unrestricted(a) == a.isNone \/ a.values = {}

Passes(row) ==
  /\ Unrestricted(args.categories) \/ row.Product_Category \in args.categories.values
  /\ Unrestricted(args.locations) \/ row.Location \in args.locations.values

\* A row of a frame without the two columns the callback adds.
Loaded(row) == [c \in Range(df_at_load.columns) |-> row[c]]

\* The indices of the rows of df that pass the filter, and the j-th of them.
Passing == {i \in 1..Len(df.rows) : Passes(df.rows[i])}

NthPassing(j) == CHOOSE i \in Passing : Cardinality({k \in Passing : k <= i}) = j

\* The sum of column val over the rows of the view with an index in I.
RECURSIVE ViewSum(_, _)
ViewSum(I, val) ==
  IF I = {} THEN 0
  ELSE LET i == CHOOSE x \in I : TRUE
       IN  View[i][val] + ViewSum(I \ {i}, val)

ViewMean(I, val) == Frac(ViewSum(I, val), Cardinality(I))

\* The months that hold a row of the view.
ViewMonths == {MonthNo(View[i].Transaction_Date) : i \in 1..Len(View)}

InMonth(m) == {i \in 1..Len(View) : MonthNo(View[i].Transaction_Date) = m}

\* The tenure bucket the specification gives a tenure: [0,6], (6,12], (12,24],
\* (24,36], above 36; none below 0.
SpecTenureGroup(t) ==
  IF t < 0 THEN NaN
  ELSE IF t <= 6 THEN tenure_labels[1]
  ELSE IF t <= 12 THEN tenure_labels[2]
  ELSE IF t <= 24 THEN tenure_labels[3]
  ELSE IF t <= 36 THEN tenure_labels[4]
  ELSE tenure_labels[5]

\* The discount bucket the specification gives a discount d (in tenths) of at
\* most 100: (0,5], (5,10], (10,15], (15,20], (20,100]; none at or below 0.
SpecDiscountGroup(d) ==
  IF d <= 0 THEN NaN
  ELSE IF d <= 5 * Tenths THEN discount_labels[1]
  ELSE IF d <= 10 * Tenths THEN discount_labels[2]
  ELSE IF d <= 15 * Tenths THEN discount_labels[3]
  ELSE IF d <= 20 * Tenths THEN discount_labels[4]
  ELSE discount_labels[5]

AllOptions(col) == List(Range(DropdownOptions(df_at_load, col)))

\* -------------------------------------------------------------------- C1

\* C1: the filtered view of a call is exactly the rows of the loaded table, in
\* their order, whose category is among a non-empty categories argument and
\* whose location is among a non-empty locations argument; None or an empty
\* list restricts nothing, and a value that is no option leaves no row.
C1_FilterIsExact ==
  Called =>
    /\ Len(View) = Cardinality(Passing)
    /\ \A j \in 1..Len(View) : Loaded(View[j]) = df_at_load.rows[NthPassing(j)]
    /\ (args.categories.values = {Unknown} \/ args.locations.values = {Unknown})
         => View = <<>>

\* A call with a category and a location chosen that keeps some rows of the
\* table and drops others.
C1_Witness ==
  /\ Called
  /\ ~Unrestricted(args.categories) /\ ~Unrestricted(args.locations)
  /\ View # <<>>
  /\ Len(View) < Len(df.rows)

\* -------------------------------------------------------------------- C2

\* C2: every row of the view with a tenure of 0 or more is in exactly the tenure
\* bucket the specification names, 0 and 6 in "0-6", and a negative tenure in
\* none.
C2_TenureBucketsAsSpecified ==
  Called =>
    \A i \in 1..Len(View) :
       View[i].Tenure_Group = SpecTenureGroup(View[i].Tenure_Months)

\* -------------------------------------------------------------------- C3

\* C3 as stated: the monthly trend has one entry for each month that holds a
\* row of the view and for no other month, in order, with the month's revenue.
C3_OnlyMonthsWithRows ==
  Called =>
    /\ Len(ret.monthly_sales) = Cardinality(ViewMonths)
    /\ \A j \in 1..Len(ret.monthly_sales) :
          /\ MonthNo(ret.monthly_sales[j].Transaction_Date) \in ViewMonths
          /\ j > 1 => MonthNo(ret.monthly_sales[j - 1].Transaction_Date)
                        < MonthNo(ret.monthly_sales[j].Transaction_Date)
          /\ ret.monthly_sales[j].Revenue =
               ViewSum(InMonth(MonthNo(ret.monthly_sales[j].Transaction_Date)),
                       "Revenue")

\* C3 amended: the monthly trend has one entry for every month from the first
\* to the last month that holds a row of the view, in order, with the revenue of
\* the month's rows, which is 0 for a month in between that holds none; it is
\* empty for an empty view.
C3_EveryMonthOfTheSpan ==
  Called =>
    IF View = <<>> THEN ret.monthly_sales = <<>>
    ELSE LET first == CHOOSE m \in ViewMonths : \A o \in ViewMonths : m <= o
             last == CHOOSE m \in ViewMonths : \A o \in ViewMonths : o <= m
         IN  /\ Len(ret.monthly_sales) = last - first + 1
             /\ \A j \in 1..Len(ret.monthly_sales) :
                   /\ MonthNo(ret.monthly_sales[j].Transaction_Date) = first + j - 1
                   /\ ret.monthly_sales[j].Revenue =
                        ViewSum(InMonth(first + j - 1), "Revenue")

\* A call whose trend has an entry for a month that holds no row of the view.
C3_Witness ==
  /\ Called
  /\ \E j \in 1..Len(ret.monthly_sales) :
        /\ MonthNo(ret.monthly_sales[j].Transaction_Date) \notin ViewMonths
        /\ ret.monthly_sales[j].Revenue = 0

\* -------------------------------------------------------------------- C4

\* C4 as stated: when the filter selects no row, each of the eight aggregates
\* and the row preview is empty.
C4_EmptyViewAllEmpty ==
  (Called /\ View = <<>>) =>
    /\ ret.monthly_sales = <<>>
    /\ ret.category_revenue = <<>>
    /\ ret.top_products = <<>>
    /\ ret.gender_spending = <<>>
    /\ ret.tenure_spending = <<>>
    /\ ret.location_spending = <<>>
    /\ ret.coupon_effect = <<>>
    /\ ret.discount_impact = <<>>
    /\ ret.table_data = <<>>

\* C4 amended: when the filter selects no row, the call returns; the monthly
\* trend, category revenue, top products, gender spending, coupon effectiveness
\* and the row preview are empty; tenure spending and discount impact have one
\* row for each of their five buckets, in order, with a missing mean; location
\* spending has one row for each location of the loaded table, with sum 0.
C4_EmptyViewKeepsCategories ==
  (Called /\ View = <<>>) =>
    /\ ret.monthly_sales = <<>>
    /\ ret.category_revenue = <<>>
    /\ ret.top_products = <<>>
    /\ ret.gender_spending = <<>>
    /\ ret.coupon_effect = <<>>
    /\ ret.table_data = <<>>
    /\ ret.tenure_spending =
         [b \in 1..Len(tenure_labels) |->
            [Tenure_Group |-> tenure_labels[b], Total_Spend |-> NaNFloat]]
    /\ ret.discount_impact =
         [b \in 1..Len(discount_labels) |->
            [Discount_Group |-> discount_labels[b], Revenue |-> NaNFloat]]
    /\ Len(ret.location_spending) = Len(df_at_load.cats.Location)
    /\ Range(ret.location_spending) =
         {[Location |-> c, Total_Spend |-> 0] : c \in Range(df_at_load.cats.Location)}

\* A call on a table with rows whose filter selects none of them.
C4_Witness ==
  /\ Called
  /\ View = <<>>
  /\ df.rows # <<>>
  /\ ret.location_spending # <<>>

\* -------------------------------------------------------------------- C5

\* What a call with the empty filter returns now.
EmptyFilterReturn == update_graphs(<<df>>, None, None).out

SelectsEveryOption ==
  /\ Called
  /\ args.categories = AllOptions("Product_Category")
  /\ args.locations = AllOptions("Location")

\* C5 as stated: a call with every category and every location of the dropdowns
\* returns what a call with the empty filter returns.
C5_AllOptionsIsNoFilter == SelectsEveryOption => ret = EmptyFilterReturn

NoMissingCategory ==
  \A i \in 1..Len(df_at_load.rows) : df_at_load.rows[i].Product_Category # NaN

\* C5 amended: on a loaded table in which no row lacks its Product_Category, a
\* call with every category and every location of the dropdowns returns what a
\* call with the empty filter returns.
C5_AllOptionsIsNoFilterIfNoneMissing ==
  (SelectsEveryOption /\ NoMissingCategory) => ret = EmptyFilterReturn

\* Such a call on a table of several rows, with options in both dropdowns.
C5_Witness ==
  /\ SelectsEveryOption
  /\ NoMissingCategory
  /\ ~Unrestricted(args.categories) /\ ~Unrestricted(args.locations)
  /\ Len(df.rows) > 1

\* -------------------------------------------------------------------- C6

\* C6: after any calls of update_graphs, df is as the load left it: the same
\* rows in the same order with the same values, and the same columns.
C6_DfUnchanged == phase = "serving" => df = df_at_load

\* A second or later call, with the empty filter, whose local frame has the
\* two added columns.
C6_Witness ==
  /\ Called /\ again
  /\ Unrestricted(args.categories) /\ Unrestricted(args.locations)
  /\ df.rows # <<>>
  /\ filtered_df.columns # df.columns

\* -------------------------------------------------------------------- C7

\* C7: what a call returns is a function of the loaded table and its two
\* arguments alone, whatever calls came before: it is what the first call after
\* the load returns for these arguments.
C7_ReturnDependsOnLoadAndArgs ==
  Called => ret = update_graphs(<<df_at_load>>, args.categories, args.locations).out

\* A second or later call, with a filter that keeps some rows and drops others.
C7_Witness ==
  /\ Called /\ again
  /\ View # <<>>
  /\ Len(View) < Len(df_at_load.rows)

\* -------------------------------------------------------------------- C8

\* C8: the row preview is the first min(100, n) rows of the view of n rows, in
\* their order: never more than 100 rows, and no row that fails the filter.
C8_PreviewIsHeadOfView ==
  Called =>
    /\ Len(ret.table_data) = Min2(PreviewRows, Len(View))
    /\ \A j \in 1..Len(ret.table_data) :
          ret.table_data[j] = View[j] /\ Passes(ret.table_data[j])

\* A call with a category chosen whose view has more rows than the preview.
C8_Witness ==
  /\ Called
  /\ ~Unrestricted(args.categories)
  /\ Len(View) > PreviewRows
  /\ Len(ret.table_data) = PreviewRows

\* -------------------------------------------------------------------- C9

InGroup(label) ==
  {i \in 1..Len(View) : SpecDiscountGroup(View[i].Discount_pct) = label
                          /\ View[i].Discount_pct <= 100 * Tenths}

\* C9: every row of the view with a discount above 0 and of at most 100 is in
\* exactly the bucket (0,5], (5,10], (10,15], (15,20], (20,100] that holds it, a
\* row with a discount of 0 or less in none; the discount aggregate lists the
\* buckets in ascending order, each with the mean revenue of its rows alone.
C9_DiscountBuckets ==
  Called =>
    /\ \A i \in 1..Len(View) :
          View[i].Discount_pct <= 100 * Tenths
            => View[i].Discount_Group = SpecDiscountGroup(View[i].Discount_pct)
    /\ Len(ret.discount_impact) = Len(discount_labels)
    /\ \A b \in 1..Len(discount_labels) :
          /\ ret.discount_impact[b].Discount_Group = discount_labels[b]
          /\ ret.discount_impact[b].Revenue =
               ViewMean(InGroup(discount_labels[b]), "Revenue")

\* A view with a discount of exactly 5, in "0-5%", and one of 5.1, in "5-10%".
C9_Witness ==
  /\ Called
  /\ \E i, j \in 1..Len(View) :
        /\ View[i].Discount_pct = 5 * Tenths
        /\ View[i].Discount_Group = discount_labels[1]
        /\ View[j].Discount_pct = 5 * Tenths + 1
        /\ View[j].Discount_Group = discount_labels[2]

\* ------------------------------------------------------------------- C10

\* C10: the process never serves a call from a table with a row whose
\* total_spend or revenue is negative.
C10_NegativeAmountsFailTheLoad ==
  Called =>
    \A i \in 1..Len(df.rows) :
       df.rows[i].Total_Spend >= 0 /\ df.rows[i].Revenue >= 0

====
